---------------------------- MODULE Spec2Model ----------------------------
(***************************************************************************)
(* A model of djmoney/money.py: the Money value type (construction,        *)
(* per-currency decimal places, additive and multiplicative operators,     *)
(* rounding, rendering), maybe_convert and get_current_locale.             *)
(*                                                                         *)
(* Representation.                                                         *)
(*  - A text (Python str) is a sequence of one-character strings.          *)
(*  - A Decimal is [k |-> "fin", v |-> n], the number n / Unit, or         *)
(*    [k |-> "nan"], or [k |-> "inf", v |-> +1 / -1].  Finite values are   *)
(*    kept in fixed point with FracDigits fractional digits; every input   *)
(*    of the model has at most that many, and an arithmetic step whose     *)
(*    exact result needs more is outside the model (its action is          *)
(*    disabled) instead of being rounded.                                  *)
(*  - A float is a binary floating-point number sg * m * 2^e with a        *)
(*    MantBits-bit significand (binary64 has 53; the model scales the      *)
(*    width down so that TLC's integers can hold the arithmetic), or nan,  *)
(*    or +/- inf.                                                          *)
(***************************************************************************)
EXTENDS Integers, Sequences, FiniteSets, TLC

\* ------------------------------------------------------------------ bounds
FracDigits == 3     \* fractional digits of the model's Decimal
MantBits == 12      \* significand width of the model's float
MaxAbs == 40        \* finite amounts stay within -MaxAbs .. MaxAbs
MaxObjs == 2        \* Money objects kept alive at a time

Unit == 10 ^ FracDigits
Limit == MaxAbs * Unit

\* --------------------------------------------------------------- characters
Digits == <<"0", "1", "2", "3", "4", "5", "6", "7", "8", "9">>
Lowers == <<"a", "b", "c", "d", "e", "f", "g", "h", "i", "j", "k", "l", "m",
            "n", "o", "p", "q", "r", "s", "t", "u", "v", "w", "x", "y", "z">>
Uppers == <<"A", "B", "C", "D", "E", "F", "G", "H", "I", "J", "K", "L", "M",
            "N", "O", "P", "Q", "R", "S", "T", "U", "V", "W", "X", "Y", "Z">>

IsDigit(c) == \E i \in DOMAIN Digits : Digits[i] = c
DigitVal(c) == (CHOOSE i \in DOMAIN Digits : Digits[i] = c) - 1

UpperChar(c) ==
    IF \E i \in DOMAIN Lowers : Lowers[i] = c
    THEN Uppers[CHOOSE i \in DOMAIN Lowers : Lowers[i] = c]
    ELSE c
LowerChar(c) ==
    IF \E i \in DOMAIN Uppers : Uppers[i] = c
    THEN Lowers[CHOOSE i \in DOMAIN Uppers : Uppers[i] = c]
    ELSE c

\* str.upper() and str.lower()
Upper(s) == [i \in DOMAIN s |-> UpperChar(s[i])]
Lower(s) == [i \in DOMAIN s |-> LowerChar(s[i])]

Abs(n) == IF n < 0 THEN -n ELSE n
Sign(n) == IF n < 0 THEN -1 ELSE 1

\* position of the first c in s, 0 when absent
IndexOf(s, c) ==
    IF \E i \in DOMAIN s : s[i] = c
    THEN CHOOSE i \in DOMAIN s : s[i] = c /\ \A j \in 1..(i - 1) : s[j] # c
    ELSE 0

RECURSIVE DigitsVal(_)
DigitsVal(s) ==
    IF s = <<>> THEN 0
    ELSE DigitsVal(SubSeq(s, 1, Len(s) - 1)) * 10 + DigitVal(s[Len(s)])

RECURSIVE NatStr(_)
NatStr(n) ==
    IF n < 10 THEN <<Digits[n + 1]>>
    ELSE NatStr(n \div 10) \o <<Digits[(n % 10) + 1]>>

\* str(i) of a Python int
IntStr(i) == IF i < 0 THEN <<"-">> \o NatStr(-i) ELSE NatStr(i)

\* ------------------------------------------------------------------ Decimal
Fin(n) == [k |-> "fin", v |-> n]
NaN == [k |-> "nan", v |-> 0]
Inf(sg) == [k |-> "inf", v |-> sg]
IsFin(d) == d.k = "fin"

Ok(x) == [ok |-> TRUE, val |-> x]
Raise(e) == [ok |-> FALSE, val |-> e]

\* the fraction digits f as a number of units, Len(f) <= FracDigits
FracVal(f) == DigitsVal(f) * (10 ^ (FracDigits - Len(f)))

\* decimal.Decimal(s) of a text: [sign] digits [. digits], or [sign] nan /
\* inf / infinity in any case; anything else raises InvalidOperation.
DecimalOfStr(s) ==
    LET signed == s # <<>> /\ s[1] \in {"-", "+"}
        sg == IF signed /\ s[1] = "-" THEN -1 ELSE 1
        body == IF signed THEN SubSeq(s, 2, Len(s)) ELSE s
        low == Lower(body)
        dot == IndexOf(body, ".")
        ip == IF dot = 0 THEN body ELSE SubSeq(body, 1, dot - 1)
        fp == IF dot = 0 THEN <<>> ELSE SubSeq(body, dot + 1, Len(body))
    IN  IF low = <<"n", "a", "n">> THEN Ok(NaN)
        ELSE IF low = <<"i", "n", "f">>
                \/ low = <<"i", "n", "f", "i", "n", "i", "t", "y">> THEN Ok(Inf(sg))
        ELSE IF /\ Len(ip) + Len(fp) > 0
                /\ \A i \in DOMAIN ip : IsDigit(ip[i])
                /\ \A i \in DOMAIN fp : IsDigit(fp[i])
                /\ Len(fp) <= FracDigits
             THEN Ok(Fin(sg * (DigitsVal(ip) * Unit + FracVal(fp))))
        ELSE Raise("InvalidOperation")

\* a / b rounded to the nearest integer, ties to even (a >= 0, b > 0)
RoundHalfEvenDiv(a, b) ==
    LET q == a \div b
        r == a % b
    IN  IF 2 * r < b THEN q
        ELSE IF 2 * r > b THEN q + 1
        ELSE IF q % 2 = 0 THEN q ELSE q + 1

\* the nearest integer instead of the integer part
DecTrunc_rounded(d) ==
    IF d.k = "nan" THEN Raise("ValueError")
    ELSE IF d.k = "inf" THEN Raise("OverflowError")
    ELSE Ok(Sign(d.v) * RoundHalfEvenDiv(Abs(d.v), Unit))

\* math.trunc(d): the integer part, toward zero
DecTrunc(d) ==
    IF d.k = "nan" THEN Raise("ValueError")
    ELSE IF d.k = "inf" THEN Raise("OverflowError")
    ELSE Ok(Sign(d.v) * (Abs(d.v) \div Unit))


\* -------------------------------------------------------------------- float
FFin(sg, m, e) == [k |-> "fin", sg |-> sg, m |-> m, e |-> e]
FNaN == [k |-> "nan", sg |-> 1, m |-> 0, e |-> 0]
FInf(sg) == [k |-> "inf", sg |-> sg, m |-> 0, e |-> 0]

MantLo == 2 ^ (MantBits - 1)
MantHi == 2 ^ MantBits
\* enough binary places to normalise one unit: 2^(4 * FracDigits) > Unit
MaxShift == MantBits + 4 * FracDigits

\* the decimal digits a float of MantBits bits always carries through a round
\* trip (DBL_DIG, 15 for the 53 bits of binary64): the largest d with
\* 10^d <= 2^(MantBits - 1)
FloatDig == CHOOSE d \in 0..MantBits :
                10 ^ d <= MantLo /\ 10 ^ (d + 1) > MantLo

\* the float nearest to n / Unit (round to nearest, ties to even); the sign
\* of zero is not kept
FloatNearest(n) ==
    LET a == Abs(n)
    IN  IF a = 0 THEN FFin(1, 0, 0)
        ELSE IF a >= MantLo * Unit
        THEN LET up == CHOOSE j \in 0..MaxShift :
                           /\ a >= MantLo * Unit * (2 ^ j)
                           /\ a < MantHi * Unit * (2 ^ j)
                 m == RoundHalfEvenDiv(a, Unit * (2 ^ up))
             IN  IF m = MantHi THEN FFin(Sign(n), MantLo, up + 1)
                 ELSE FFin(Sign(n), m, up)
        ELSE LET dn == CHOOSE j \in 1..MaxShift :
                           /\ a * (2 ^ j) >= MantLo * Unit
                           /\ a * (2 ^ (j - 1)) < MantLo * Unit
                 m == RoundHalfEvenDiv(a * (2 ^ dn), Unit)
             IN  IF m = MantHi THEN FFin(Sign(n), MantLo, 1 - dn)
                 ELSE FFin(Sign(n), m, -dn)

\* the number of significant decimal digits of n / Unit
RECURSIVE SigDigits(_)
SigDigits(n) ==
    IF n = 0 THEN 1
    ELSE IF n % 10 = 0 THEN SigDigits(n \div 10)
    ELSE Len(NatStr(n))

\* |n / Unit - m * 2^e|, scaled by Unit * 2^(-e) (e <= 0)
Dist(n, m, e) == Abs(n * (2 ^ (-e)) - m * Unit)

\* the decimal, in units, that repr() prints for the magnitude of a finite
\* float: of the decimals that read back as the same float, one with the
\* fewest significant digits, and of those the nearest.  A float that no
\* decimal of FracDigits digits reads back to prints as the nearest one.
ReprUnits(f) ==
    IF f.m = 0 THEN 0
    ELSE IF f.e > 0 THEN f.m * (2 ^ f.e) * Unit
    ELSE LET n0 == RoundHalfEvenDiv(f.m * Unit, 2 ^ (-f.e))
             w == (Unit \div (2 ^ (-f.e))) + 1
             back == {n \in (n0 - w)..(n0 + w) :
                          n >= 0 /\ FloatNearest(n) = FFin(1, f.m, f.e)}
             best == {n \in back : \A o \in back :
                          \/ SigDigits(n) < SigDigits(o)
                          \/ /\ SigDigits(n) = SigDigits(o)
                             /\ Dist(n, f.m, f.e) <= Dist(o, f.m, f.e)}
         IN  IF back = {} THEN n0 ELSE CHOOSE n \in best : \A o \in best : n <= o

\* the fraction of n units as text: FracDigits digits, trailing zeros
\* dropped, at least one kept
RECURSIVE StripZeros(_)
StripZeros(s) ==
    IF Len(s) > 1 /\ s[Len(s)] = "0" THEN StripZeros(SubSeq(s, 1, Len(s) - 1))
    ELSE s
FracStr(n) ==
    LET d == NatStr(n % Unit)
        pad == [i \in 1..(FracDigits - Len(d)) |-> "0"]
    IN  StripZeros(pad \o d)

\* str(f) of a Python 3 float: "nan", "inf", "-inf", or the shortest decimal
\* that reads back as f, always with a fraction ("15.0")
FloatStr(f) ==
    IF f.k = "nan" THEN <<"n", "a", "n">>
    ELSE IF f.k = "inf"
    THEN (IF f.sg < 0 THEN <<"-">> ELSE <<>>) \o <<"i", "n", "f">>
    ELSE LET n == ReprUnits(f)
         IN  (IF f.sg < 0 THEN <<"-">> ELSE <<>>)
                 \o NatStr(n \div Unit) \o <<".">> \o FracStr(n)

\* float(d) of a Decimal
FloatOfDecimal(d) ==
    IF d.k = "nan" THEN FNaN
    ELSE IF d.k = "inf" THEN FInf(d.v)
    ELSE FloatNearest(d.v)

\* ---------------------------------------------------------------- Decimal ops
InModel(d) == d.k # "fin" \/ Abs(d.v) <= Limit

DecNeg(d) ==
    IF d.k = "fin" THEN Fin(-d.v)
    ELSE IF d.k = "inf" THEN Inf(-d.v)
    ELSE NaN

\* a + b
DecAdd(a, b) ==
    IF a.k = "nan" \/ b.k = "nan" THEN Ok(NaN)
    ELSE IF a.k = "inf" /\ b.k = "inf"
    THEN (IF a.v = b.v THEN Ok(a) ELSE Raise("InvalidOperation"))
    ELSE IF a.k = "inf" THEN Ok(a)
    ELSE IF b.k = "inf" THEN Ok(b)
    ELSE Ok(Fin(a.v + b.v))

\* a * k for an integer k
DecMul(a, k) ==
    IF a.k = "nan" THEN Ok(NaN)
    ELSE IF a.k = "inf"
    THEN (IF k = 0 THEN Raise("InvalidOperation") ELSE Ok(Inf(a.v * Sign(k))))
    ELSE Ok(Fin(a.v * k))

\* a / k for an integer k; DivExact says the quotient has FracDigits digits
DivExact(a, k) ==
    IF a.k # "fin" \/ k = 0 THEN TRUE ELSE Abs(a.v) % Abs(k) = 0
DecDiv(a, k) ==
    IF a.k = "nan" THEN Ok(NaN)
    ELSE IF a.k = "inf" THEN Ok(Inf(a.v * Sign(k)))
    ELSE IF k = 0
    THEN (IF a.v = 0 THEN Raise("InvalidOperation") ELSE Raise("DivisionByZero"))
    ELSE Ok(Fin(Sign(a.v) * Sign(k) * RoundHalfEvenDiv(Abs(a.v), Abs(k))))

\* the next multiple of q above |v|, also when v is a multiple already
QuantNextUp(v, q) == Sign(v) * ((Abs(v) \div q) + 1) * q

\* the multiple of q nearest to v, ties to the even multiple
QuantHalfEven(v, q) == Sign(v) * RoundHalfEvenDiv(Abs(v), q) * q

\* round(d, n) of a Decimal: n = [set |-> FALSE] is round(d), an int, given
\* here as the Decimal that Decimal(str(int)) makes of it
DecRound(d, n) ==
    IF ~n.set
    THEN (IF d.k = "nan" THEN Raise("ValueError")
          ELSE IF d.k = "inf" THEN Raise("OverflowError")
          ELSE Ok(Fin(QuantHalfEven(d.v, Unit))))
    ELSE IF d.k = "nan" THEN Ok(NaN)
    ELSE IF d.k = "inf" THEN Raise("InvalidOperation")
    ELSE IF n.v >= FracDigits THEN Ok(d)
    ELSE Ok(Fin(QuantHalfEven(d.v, 10 ^ (FracDigits - n.v))))

\* ----------------------------------------------------------------- settings
USD == <<"U", "S", "D">>
JPY == <<"J", "P", "Y">>
DEFAULT_CURRENCY_CODE == <<"X", "Y", "Z">>

\* moneyed's registry of currencies
CURRENCIES == {USD, JPY, DEFAULT_CURRENCY_CODE}

None == [dict |-> FALSE, items |-> <<>>]
Dict(f) == [dict |-> TRUE, items |-> f]
Unset == [set |-> FALSE, v |-> 0]
Set(x) == [set |-> TRUE, v |-> x]
\* a boolean setting that the settings module does not define
Undefined == [set |-> FALSE, v |-> FALSE]

VARIABLES
    settings,   \* django.conf.settings and djmoney.settings, fixed at start-up
    rates,      \* the exchange rates the conversion hook knows
    language,   \* translation.get_language(): the active language, or unset
    formatting_definitions,    \* moneyed's _FORMATTER.formatting_definitions
    cls,        \* the class attributes of Money
    heap,       \* the Money objects bound to a name, in order of binding
    ret         \* the last call: what it was given and what it gave back

vars == <<settings, rates, language, formatting_definitions, cls, heap, ret>>

\* getattr(settings, 'AUTO_CONVERT_MONEY', False)
AutoConvert == settings.AUTO_CONVERT_MONEY.set /\ settings.AUTO_CONVERT_MONEY.v

\* an instance attribute, or the class attribute when the instance has none
AmountPlaces(m) ==
    IF m.amount_decimal_places.set THEN m.amount_decimal_places.v
    ELSE cls.amount_decimal_places
DisplayPlaces(m) ==
    IF m.display_decimal_places.set THEN m.display_decimal_places.v
    ELSE cls.display_decimal_places

\* ---------------------------------------------------------------- Money.__init__
\* an amount argument: a Decimal, an int, a float or a str
ADec(d) == [t |-> "Decimal", d |-> d]
AInt(i) == [t |-> "int", i |-> i]
AFloat(f) == [t |-> "float", f |-> f]
AStr(s) == [t |-> "str", s |-> s]
\* a currency argument: a Currency or a str
CCur(c) == [t |-> "Currency", code |-> c]
CStr(s) == [t |-> "str", s |-> s]

\* str(amount)
Str(amount) ==
    IF amount.t = "int" THEN IntStr(amount.i)
    ELSE IF amount.t = "float" THEN FloatStr(amount.f)
    ELSE amount.s

\* Decimal(f) of a float: its binary expansion, to FracDigits digits
DecimalOfFloat(f) ==
    IF f.k = "nan" THEN NaN
    ELSE IF f.k = "inf" THEN Inf(f.sg)
    ELSE IF f.e > 0 THEN Fin(f.sg * f.m * (2 ^ f.e) * Unit)
    ELSE Fin(f.sg * RoundHalfEvenDiv(f.m * Unit, 2 ^ (-f.e)))

\* Decimal(amount) of a float, without the text in between
ToDecimal_binary(amount) ==
    IF amount.t = "Decimal" THEN Ok(amount.d)
    ELSE IF amount.t = "float" THEN Ok(DecimalOfFloat(amount.f))
    ELSE DecimalOfStr(Str(amount))

\* lines 33-34
ToDecimal(amount) ==
    IF amount.t = "Decimal" THEN Ok(amount.d) ELSE DecimalOfStr(Str(amount))

\* moneyed.get_currency(code)
get_currency(code) ==
    IF code \in CURRENCIES THEN Ok(code) ELSE Raise("CurrencyDoesNotExist")

\* lines 36-37
ToCurrency(currency) ==
    IF currency.t = "Currency" THEN Ok(currency.code)
    ELSE get_currency(Upper(currency.s))

\* lines 41-48: the instance attributes the try block sets.  A KeyError of
\* the first lookup leaves the block, so the second lookup is not made.
PlacesOverride(code) ==
    LET per == settings.DECIMAL_PLACES_PER_CURRENCY
        disp == settings.DISPLAY_DECIMAL_PLACES_PER_CURRENCY
        keyerror == per.dict /\ code \notin DOMAIN per.items
    IN  [amount_decimal_places |->
             IF per.dict /\ ~keyerror THEN Set(per.items[code]) ELSE Unset,
         display_decimal_places |->
             IF ~keyerror /\ disp.dict /\ code \in DOMAIN disp.items
             THEN Set(disp.items[code]) ELSE Unset]

\* a constructor's outcome: the new instance or the error raised, and the
\* class attributes afterwards
Fail(e) == [ok |-> FALSE, val |-> e, cls |-> cls]

\* Decimal(i) of the int that math.trunc gave, or its error
IntDecimal(t) == IF t.ok THEN Ok(Fin(t.val * Unit)) ELSE t

\* line 50: the decimal places the new instance reads, its own attribute or
\* the class attribute
ResolvedPlaces(over) ==
    IF over.amount_decimal_places.set THEN over.amount_decimal_places.v
    ELSE cls.amount_decimal_places

\* the amount stored as given, whatever the decimal places
Truncate_never(dec, places) == Ok(dec)

\* lines 50-51
Truncate(dec, places) ==
    IF places = 0 THEN IntDecimal(DecTrunc(dec)) ELSE Ok(dec)

\* the decimal places assigned to the class, Money.amount_decimal_places,
\* instead of to the instance
Instance_class_attributes(amount, code, over) ==
    IF ~amount.ok THEN Fail(amount.val)
    ELSE [ok |-> TRUE,
          val |-> [amount |-> amount.val,
                   currency |-> code,
                   amount_decimal_places |-> Unset,
                   display_decimal_places |-> Unset],
          cls |-> [cls EXCEPT
                       !.amount_decimal_places =
                           IF over.amount_decimal_places.set
                           THEN over.amount_decimal_places.v ELSE @,
                       !.display_decimal_places =
                           IF over.display_decimal_places.set
                           THEN over.display_decimal_places.v ELSE @]]

\* lines 38, 43, 46 and 53: the attributes are set on the instance
Instance(amount, code, over) ==
    IF ~amount.ok THEN Fail(amount.val)
    ELSE [ok |-> TRUE,
          val |-> [amount |-> amount.val,
                   currency |-> code,
                   amount_decimal_places |-> over.amount_decimal_places,
                   display_decimal_places |-> over.display_decimal_places],
          cls |-> cls]

\* lines 38-53
Initialise(dec, code, over) ==
    Instance(Truncate(dec, ResolvedPlaces(over)), code, over)

\* lines 33-37 raise before anything is stored
Normalised(dec, cur) ==
    IF ~dec.ok THEN Fail(dec.val)
    ELSE IF ~cur.ok THEN Fail(cur.val)
    ELSE Initialise(dec.val, cur.val, PlacesOverride(cur.val))

\* Money(amount, currency), lines 32-53
Money__init__(amount, currency) ==
    Normalised(ToDecimal(amount), ToCurrency(currency))

\* ------------------------------------------------------------- the operators
\* an operand: a Money, a deferred expression django.db.models.F, or an int
OMoney(m) == [t |-> "Money", obj |-> m]
OF == [t |-> "F"]
OInt(i) == [t |-> "int", i |-> i]

\* what a call gives back: kind is "Money" (val the new instance), "raise"
\* (val the error), "expr" (val the reflected operator of the deferred
\* expression), "float", "repr" or "text"; self is the receiver after the
\* call, hook the number of calls of convert_money, cls the class attributes
\* after the call
Result(kind, val, self, hook, c) ==
    [kind |-> kind, val |-> val, self |-> self, hook |-> hook, cls |-> c]
Made(r, self, hook) ==
    Result(IF r.ok THEN "Money" ELSE "raise", r.val, self, hook, r.cls)

\* djmoney.contrib.exchange.models.get_rate
get_rate(source, target) ==
    IF source = target THEN Ok(1)
    ELSE IF <<source, target>> \in DOMAIN rates THEN Ok(rates[<<source, target>>])
    ELSE Raise("MissingRate")

\* value.__class__(value.amount * rate, currency)
Exchanged(amount, currency) ==
    IF ~amount.ok THEN Fail(amount.val)
    ELSE Money__init__(ADec(amount.val), CCur(currency))

AtRate(value, rate, currency) ==
    IF ~rate.ok THEN Fail(rate.val)
    ELSE Exchanged(DecMul(value.obj.amount, rate.val), currency)

\* djmoney.contrib.exchange.models.convert_money: the conversion hook
convert_money(value, currency) ==
    IF value.t # "Money" THEN Fail("AttributeError")
    ELSE AtRate(value, get_rate(value.obj.currency, currency), currency)

\* what maybe_convert hands back after a call of the hook: the operand to
\* use, or the hook's error
Converted(r) ==
    [ok |-> r.ok, val |-> IF r.ok THEN OMoney(r.val) ELSE r.val, hook |-> 1,
     cls |-> r.cls]

\* maybe_convert without the test of the flag
maybe_convert_unconditional(value, currency) ==
    Converted(convert_money(value, currency))

\* lines 134-142: the operand to use, or the hook's error, and the number of
\* calls of the hook
maybe_convert(value, currency) ==
    IF AutoConvert THEN Converted(convert_money(value, currency))
    ELSE [ok |-> TRUE, val |-> value, hook |-> 0, cls |-> cls]

\* self.__class__(amount, self.currency) of the Decimal an operator
\* computed, or the error of computing it
Rebuilt(amount, self) ==
    IF ~amount.ok THEN Fail(amount.val)
    ELSE Money__init__(ADec(amount.val), CCur(self.currency))

\* moneyed.Money.__add__ and __sub__ (sg = -1) of a Money operand: the sum
\* in a new instance of the receiver's class, TypeError when the currencies
\* differ
DefaultMoney__add__(self, other, sg) ==
    IF other.t # "Money" THEN Fail("TypeError")
    ELSE IF other.obj.currency # self.currency THEN Fail("TypeError")
    ELSE Rebuilt(DecAdd(self.amount,
                        IF sg < 0 THEN DecNeg(other.obj.amount)
                        ELSE other.obj.amount), self)

\* moneyed.Money.__mul__: a Money scaled by a number
DefaultMoney__mul__(self, other) ==
    IF other.t # "int" THEN Fail("TypeError")
    ELSE Rebuilt(DecMul(self.amount, other.i), self)

\* moneyed.Money.__truediv__: a Money divided by a number
DefaultMoney__truediv__(self, other) ==
    IF other.t # "int" THEN Fail("TypeError")
    ELSE Rebuilt(DecDiv(self.amount, other.i), self)

\* lines 73 and 79: super().__add__(other) and super().__sub__(other) of
\* the operand that maybe_convert gave, or the error it raised
Delegate(self, conv, sg) ==
    IF ~conv.ok THEN Result("raise", conv.val, self, conv.hook, conv.cls)
    ELSE Made(DefaultMoney__add__(self, conv.val, sg), self, conv.hook)

\* lines 69-73
Money__add__(self, other) ==
    IF other.t = "F" THEN Result("expr", "__radd__", self, 0, cls)
    ELSE Delegate(self, maybe_convert(other, self.currency), 1)

\* lines 75-79
Money__sub__(self, other) ==
    IF other.t = "F" THEN Result("expr", "__rsub__", self, 0, cls)
    ELSE Delegate(self, maybe_convert(other, self.currency), -1)

\* lines 81-84
Money__mul__(self, other) ==
    IF other.t = "F" THEN Result("expr", "__rmul__", self, 0, cls)
    ELSE Made(DefaultMoney__mul__(self, other), self, 0)

\* lines 86-89
Money__truediv__(self, other) ==
    IF other.t = "F" THEN Result("expr", "__rtruediv__", self, 0, cls)
    ELSE Made(DefaultMoney__truediv__(self, other), self, 0)

\* round(self.amount, n) as the argument handed to the constructor: an int
\* when n is None, a Decimal otherwise
RoundedAmount(d, n) ==
    LET r == DecRound(d, n)
    IN  IF ~r.ok THEN r
        ELSE IF n.set THEN Ok(ADec(r.val))
        ELSE Ok(AInt(r.val.v \div Unit))

\* line 117
Rounded(amount, self) ==
    IF ~amount.ok THEN Result("raise", amount.val, self, 0, cls)
    ELSE Made(Money__init__(amount.val, CCur(self.currency)), self, 0)

\* lines 115-117
Money__round__(self, n) == Rounded(RoundedAmount(self.amount, n), self)

\* lines 63-67
Money__float__(self) ==
    Result("float", FloatOfDecimal(self.amount), self, 0, cls)

\* lines 55-61: the amount and the currency that the text shows
Money__repr__(self) ==
    LET int == DecTrunc(self.amount)
    IN  IF DisplayPlaces(self) # 0
        THEN Result("repr", [amount |-> self.amount, currency |-> self.currency],
                    self, 0, cls)
        ELSE IF ~int.ok THEN Result("raise", int.val, self, 0, cls)
        ELSE Result("repr", [amount |-> Fin(int.val * Unit),
                             currency |-> self.currency], self, 0, cls)

\* ------------------------------------------------------- get_current_locale
\* django.utils.translation.to_locale: "en-us" is "en_US", "sr-latn" is
\* "sr_Latn", "fr" is "fr"
to_locale(lang) ==
    LET p == IndexOf(lang, "-")
        head == Lower(SubSeq(lang, 1, p - 1))
        tail == SubSeq(lang, p + 1, Len(lang))
    IN  IF p = 0 THEN Lower(lang)
        ELSE IF Len(tail) > 2
        THEN head \o <<"_", UpperChar(tail[1])>> \o Lower(SubSeq(tail, 2, Len(tail)))
        ELSE head \o <<"_">> \o Upper(tail)

\* the first match given back in upper case, as the table spells it
ResolveLocale_upper(active, table) ==
    LET lang == IF active.set /\ active.v # <<>> THEN active.v
                ELSE settings.LANGUAGE_CODE
        locale == to_locale(lang)
        doubled == Upper(locale \o <<"_">> \o locale)
    IN  IF Upper(locale) \in table THEN Upper(locale)
        ELSE IF doubled \in table THEN doubled
        ELSE <<>>

\* lines 119-131, of the active language and the table of definitions
ResolveLocale(active, table) ==
    LET lang == IF active.set /\ active.v # <<>> THEN active.v
                ELSE settings.LANGUAGE_CODE
        locale == to_locale(lang)
        doubled == Upper(locale \o <<"_">> \o locale)
    IN  IF Upper(locale) \in table THEN locale
        ELSE IF doubled \in table THEN doubled
        ELSE <<>>

get_current_locale == ResolveLocale(language, formatting_definitions)

\* lines 91-95
is_localized ==
    IF cls.use_l10n = "None" THEN settings.USE_L10N ELSE cls.use_l10n = "True"

\* lines 97-104: the arguments handed to moneyed's format_money; locale is
\* unset when the call passes none
Money__unicode__(self) ==
    LET locale == get_current_locale
    IN  Result("text",
               [money |-> self.amount, currency |-> self.currency,
                decimal_places |-> DisplayPlaces(self),
                locale |-> IF is_localized /\ locale # <<>>
                           THEN [set |-> TRUE, v |-> locale]
                           ELSE [set |-> FALSE, v |-> <<>>]],
               self, 0, cls)

\* ------------------------------------------------------------------- inputs
\* n thousandths as a Decimal
Milli(n) == Fin(n * (Unit \div (10 * 10 * 10)))

Amounts ==
    {ADec(Milli(19990)), ADec(Milli(-2345)), AInt(3), AFloat(FNaN)}

CurrencyArgs == {CCur(USD), CStr(<<"j", "p", "y">>), CStr(<<"x", "x">>)}

Multipliers == {OInt(2), OF}
Divisors == {OInt(2), OInt(0), OF}
RoundDigits == {Unset, Set(2)}

Settings(places, per, disp, auto) ==
    [DECIMAL_PLACES |-> places,
     DECIMAL_PLACES_PER_CURRENCY |-> per,
     DISPLAY_DECIMAL_PLACES_PER_CURRENCY |-> disp,
     AUTO_CONVERT_MONEY |-> auto,
     USE_L10N |-> TRUE,
     LANGUAGE_CODE |-> <<"e", "n", "-", "u", "s">>]

EN_US == <<"E", "N", "_", "U", "S">>
FR_FR == <<"F", "R", "_", "F", "R">>
DEFAULT == <<"D", "E", "F", "A", "U", "L", "T">>

NoCall == [op |-> "none", self |-> 0, arg |-> OF, kind |-> "none",
           val |-> "none", hook |-> 0]
Call(op, i, arg, r) ==
    [op |-> op, self |-> i, arg |-> arg, kind |-> r.kind, val |-> r.val,
     hook |-> r.hook]

\* ------------------------------------------------------------------- states
StartAt(cfg, rt, lang, table, call) ==
    /\ settings = cfg
    /\ rates = rt
    /\ language = lang
    /\ formatting_definitions = table
    /\ cls = [amount_decimal_places |-> cfg.DECIMAL_PLACES,
              display_decimal_places |-> cfg.DECIMAL_PLACES,
              use_l10n |-> "None"]
    /\ heap = <<>>
    /\ ret = call

Start(cfg, rt, lang, table) == StartAt(cfg, rt, lang, table, NoCall)

\* the settings and the rate tables the behaviours start from
Configs ==
    {[s |-> Settings(2, Dict(JPY :> 0), Dict(USD :> 3 @@ JPY :> 0), Undefined),
      r |-> <<>>],
     [s |-> Settings(2, Dict(USD :> 2 @@ JPY :> 0), Dict(USD :> 0), Set(TRUE)),
      r |-> (<<JPY, USD>> :> 2)],
     [s |-> Settings(0, None, Dict(JPY :> 2), Set(FALSE)), r |-> <<>>]}

Init ==
    \E c \in Configs :
        Start(c.s, c.r, Set(<<"f", "r">>), {EN_US, FR_FR, DEFAULT})

\* the result of a call is within the model's amounts
Within(r) == r.kind = "Money" => InModel(r.val.amount)

\* the operands at hand: the named objects and a deferred expression
Operands == {OMoney(heap[j]) : j \in DOMAIN heap} \cup {OF}

\* a call of a method on heap[i]: the receiver, the class attributes and the
\* record of the call
Apply(op, i, arg, r) ==
    /\ Within(r)
    /\ heap' = [heap EXCEPT ![i] = r.self]
    /\ cls' = r.cls
    /\ ret' = Call(op, i, arg, r)
    /\ UNCHANGED <<settings, rates, language, formatting_definitions>>

\* Money(amount, currency)
ConstructFrom(amounts, currencies) ==
    \E amount \in amounts, currency \in currencies :
        LET r == Money__init__(amount, currency)
        IN  /\ ret' = [op |-> "init", self |-> 0,
                       arg |-> [amount |-> amount, currency |-> currency],
                       kind |-> IF r.ok THEN "Money" ELSE "raise",
                       val |-> r.val, hook |-> 0]
            /\ cls' = r.cls
            /\ UNCHANGED <<settings, rates, language, formatting_definitions, heap>>

Construct == ConstructFrom(Amounts, CurrencyArgs)

\* name = <the value of the last call>
Bind ==
    /\ ret.kind = "Money"
    /\ Len(heap) < MaxObjs
    /\ heap' = Append(heap, ret.val)
    /\ ret' = NoCall
    /\ UNCHANGED <<settings, rates, language, formatting_definitions, cls>>

Add ==
    \E i \in DOMAIN heap, other \in Operands :
        Apply("add", i, other, Money__add__(heap[i], other))

Sub ==
    \E i \in DOMAIN heap, other \in Operands :
        Apply("sub", i, other, Money__sub__(heap[i], other))

Mul ==
    \E i \in DOMAIN heap, other \in Multipliers :
        Apply("mul", i, other, Money__mul__(heap[i], other))

Div ==
    \E i \in DOMAIN heap, other \in Divisors :
        /\ other.t = "int" => DivExact(heap[i].amount, other.i)
        /\ Apply("div", i, other, Money__truediv__(heap[i], other))

Round ==
    \E i \in DOMAIN heap, n \in RoundDigits :
        Apply("round", i, n, Money__round__(heap[i], n))

Float ==
    \E i \in DOMAIN heap : Apply("float", i, OF, Money__float__(heap[i]))

Repr ==
    \E i \in DOMAIN heap : Apply("repr", i, OF, Money__repr__(heap[i]))

Unicode ==
    \E i \in DOMAIN heap : Apply("unicode", i, OF, Money__unicode__(heap[i]))

Next ==
    \/ Construct
    \/ Bind
    \/ Add
    \/ Sub
    \/ Mul
    \/ Div
    \/ Round
    \/ Float
    \/ Repr
    \/ Unicode

Spec == Init /\ [][Next]_vars

\* -------------------------------------------------------- construction alone
AnyAmounts ==
    {ADec(Fin(0)), ADec(Milli(19990)), ADec(Milli(-19990)), ADec(Milli(500)),
     ADec(NaN), ADec(Inf(1)),
     AInt(3), AInt(-7),
     AFloat(FloatNearest(Milli(2500).v)), AFloat(FloatNearest(Milli(-19900).v)),
     AFloat(FNaN), AFloat(FInf(1)), AFloat(FInf(-1)),
     AStr(<<"1", "9", ".", "9", "9">>), AStr(<<"-", ".", "5">>),
     AStr(<<"+", "7", ".">>), AStr(<<"1", ".", "2", ".", "3">>),
     AStr(<<"a", "b", "c">>), AStr(<<>>), AStr(<<"N", "a", "N">>),
     AStr(<<"-", "i", "n", "f">>)}

AnyCurrencyArgs ==
    {CCur(USD), CCur(JPY), CStr(<<"u", "s", "d">>), CStr(<<"J", "p", "y">>),
     CStr(<<"x", "x">>), CStr(DEFAULT_CURRENCY_CODE)}

PlacesTables ==
    {None, Dict(<<>>), Dict(JPY :> 0), Dict(USD :> 0 @@ JPY :> 2),
     Dict(USD :> 3)}

InitConstruct ==
    \E places \in {0, 2}, per \in PlacesTables,
       disp \in {None, Dict(USD :> 3), Dict(USD :> 0 @@ JPY :> 2)} :
        Start(Settings(places, per, disp, Undefined), <<>>, Unset,
              {EN_US, FR_FR, DEFAULT})

ConstructAny == ConstructFrom(AnyAmounts, AnyCurrencyArgs)

NextConstruct == ConstructAny

SpecConstruct == InitConstruct /\ [][NextConstruct]_vars

\* -------------------------------------------------------- the locale alone
Languages ==
    {<<"f", "r">>, <<"d", "e">>, <<"e", "n", "-", "u", "s">>,
     <<"E", "N", "-", "g", "b">>, <<"s", "r", "-", "l", "a", "t", "n">>, <<>>}

EN_GB_EN_GB == <<"E", "N", "_", "G", "B", "_", "E", "N", "_", "G", "B">>
SR_LATN == <<"S", "R", "_", "L", "A", "T", "N">>
Tables ==
    {{EN_US, FR_FR}, {DEFAULT}, {EN_US, FR_FR, DEFAULT, SR_LATN},
     {<<"F", "R">>, FR_FR, EN_GB_EN_GB}, {<<"f", "r">>, <<"d", "e">>}, {}}

InitLocale ==
    \E code \in {<<"e", "n", "-", "u", "s">>, <<"f", "r">>},
       lang \in {Set(l) : l \in Languages} \cup {[set |-> FALSE, v |-> <<>>]},
       table \in Tables :
        Start([Settings(2, None, None, Undefined) EXCEPT !.LANGUAGE_CODE = code],
              <<>>, lang, table)

\* translation.activate(l) and translation.deactivate()
Activate ==
    /\ \E lang \in {Set(l) : l \in Languages} \cup {[set |-> FALSE, v |-> <<>>]} :
           language' = lang
    /\ UNCHANGED <<settings, rates, formatting_definitions, cls, heap, ret>>

GetLocale ==
    /\ ret' = [op |-> "locale", self |-> 0, arg |-> language, kind |-> "text",
               val |-> get_current_locale, hook |-> 0]
    /\ UNCHANGED <<settings, rates, language, formatting_definitions, cls, heap>>

NextLocale ==
    \/ Activate
    \/ GetLocale

SpecLocale == InitLocale /\ [][NextLocale]_vars

\* ------------------------------------------------ a literal, text or float
\* n units written as a decimal literal
DecimalText(n) ==
    (IF n < 0 THEN <<"-">> ELSE <<>>)
        \o NatStr(Abs(n) \div Unit)
        \o (IF Abs(n) % Unit = 0 THEN <<>> ELSE <<".">> \o FracStr(Abs(n)))

\* the numbers of at most FloatDig significant digits within the model's
\* amounts, and some of one digit more, between 33 and 34
ShortUnits ==
    {c * (10 ^ j) : c \in 0..((10 ^ FloatDig) - 1), j \in 0..(FracDigits + 1)}
LongUnits ==
    {c * (10 ^ (FracDigits + 1 - FloatDig)) :
         c \in (33 * (10 ^ (FloatDig - 1)))..(34 * (10 ^ (FloatDig - 1)))}
Literals ==
    {DecimalText(n) : n \in {u \in ShortUnits \cup LongUnits : u <= Limit}}
        \cup {DecimalText(-n) : n \in {u \in ShortUnits : u <= Unit}}

\* float(s) of a decimal literal: the float nearest to it
FloatOfText(s) == FloatOfDecimal(DecimalOfStr(s).val)

InitLiteral ==
    \E s \in Literals :
        StartAt(Settings(2, Dict(JPY :> 0), None, Undefined), <<>>, Unset,
                {EN_US, FR_FR, DEFAULT},
                [op |-> "literal", self |-> 0, arg |-> [literal |-> s],
                 kind |-> "none", val |-> "none", hook |-> 0])

\* Money(amount, currency) of the literal at hand, given as it is or as the
\* float nearest to it
OfLiteral(op, amount, code) ==
    LET r == Money__init__(amount, CCur(code))
    IN  /\ ret' = [op |-> op, self |-> 0,
                   arg |-> [literal |-> ret.arg.literal, amount |-> amount,
                            currency |-> code],
                   kind |-> IF r.ok THEN "Money" ELSE "raise",
                   val |-> r.val, hook |-> 0]
        /\ cls' = r.cls
        /\ UNCHANGED <<settings, rates, language, formatting_definitions, heap>>

FromText ==
    /\ ret.op = "literal"
    /\ \E code \in {USD, JPY} : OfLiteral("text", AStr(ret.arg.literal), code)

FromFloat ==
    /\ ret.op = "literal"
    /\ \E code \in {USD, JPY} :
           OfLiteral("float", AFloat(FloatOfText(ret.arg.literal)), code)

NextLiteral ==
    \/ FromText
    \/ FromFloat

SpecLiteral == InitLiteral /\ [][NextLiteral]_vars

\* ------------------------------------------------------------------- claims
\* the receiver and the operand of the last call have different currencies
Mismatched(call) ==
    /\ call.op \in {"add", "sub"}
    /\ call.arg.t = "Money"
    /\ call.arg.obj.currency # heap[call.self].currency

\* C1: with the auto-convert flag disabled, __add__ and __sub__ of a Money of
\* another currency raise an error: no Money is returned, convert_money is
\* not called, and no object changes.
C1_MismatchFails ==
    [][(~AutoConvert /\ Mismatched(ret'))
           => (ret'.kind = "raise" /\ ret'.hook = 0 /\ heap' = heap)]_vars

C1_Witness ==
    /\ ~AutoConvert
    /\ Mismatched(ret)
    /\ ret.op = "sub"
    /\ ret.kind = "raise"
    /\ IsFin(ret.arg.obj.amount)

\* C2: __add__ and __sub__ call convert_money only when the flag is enabled
\* and the operand is a Money of another currency: a call with the flag
\* disabled, or with an operand of the receiver's currency, does not call it.
C2_HookOnlyOnMismatch ==
    (ret.op \in {"add", "sub"} /\ ret.hook > 0)
        => (AutoConvert /\ Mismatched(ret))

\* C7: rounding is idempotent: rounding the result of round(m, n) again to
\* the same n gives the same amount and the same currency.
C7_RoundIdempotent ==
    (ret.op = "round" /\ ret.kind = "Money")
        => LET again == Money__round__(ret.val, ret.arg)
           IN  /\ again.kind = "Money"
               /\ again.val.amount = ret.val.amount
               /\ again.val.currency = ret.val.currency

C7_Witness ==
    /\ ret.op = "round"
    /\ ret.kind = "Money"
    /\ ret.arg = Set(2)
    /\ ret.val.amount # heap[ret.self].amount

\* C9: no call changes an object that exists: its amount, its currency and
\* the decimal places it resolves to stay what they were, and what a call
\* returns is bound as a further object.
C9_Immutable ==
    [][\A i \in DOMAIN heap :
           /\ i \in DOMAIN heap'
           /\ heap'[i] = heap[i]
           /\ AmountPlaces(heap[i])' = AmountPlaces(heap[i])
           /\ DisplayPlaces(heap[i])' = DisplayPlaces(heap[i])]_vars

C9_Witness ==
    /\ Len(heap) = MaxObjs
    /\ ret.op \in {"add", "sub", "mul", "div", "round"}
    /\ ret.kind = "Money"
    /\ ret.val.amount # heap[ret.self].amount
    /\ ~heap[1].amount_decimal_places.set

\* the Money objects of a state
Live == {heap[i] : i \in DOMAIN heap}
            \cup (IF ret.kind = "Money" THEN {ret.val} ELSE {})

\* C10: every Money, constructed or returned by an operator, carries the
\* decimal places that the constructor resolves for its currency, and when
\* they resolve to 0 its amount is integral (3 / 2 is 1 in such a currency).
C10_ZeroPlacesIntegral ==
    \A m \in Live :
        /\ m.amount_decimal_places = PlacesOverride(m.currency).amount_decimal_places
        /\ m.display_decimal_places = PlacesOverride(m.currency).display_decimal_places
        /\ AmountPlaces(m) = 0 => (IsFin(m.amount) /\ m.amount.v % Unit = 0)

C10_Witness ==
    /\ ret.op = "div"
    /\ ret.kind = "Money"
    /\ AmountPlaces(ret.val) = 0
    /\ heap[ret.self].amount = Fin(3 * Unit)
    /\ ret.val.amount = Fin(Unit)

\* the Decimal that an amount argument that is no float denotes
InputValue(amount) ==
    IF amount.t = "Decimal" THEN Ok(amount.d)
    ELSE IF amount.t = "int" THEN Ok(Fin(amount.i * Unit))
    ELSE IF amount.t = "str" THEN DecimalOfStr(amount.s)
    ELSE Raise("float")
FiniteInput(amount) == InputValue(amount).ok /\ IsFin(InputValue(amount).val)

\* t is v truncated toward zero to an integer
IsTruncation(t, v) ==
    /\ t % Unit = 0
    /\ Abs(t) <= Abs(v)
    /\ Abs(v) - Abs(t) < Unit
    /\ t # 0 => Sign(t) = Sign(v)

\* C3: a finite amount given with a currency whose amount_decimal_places
\* resolves to 0 is stored truncated toward zero to an integer (19.99 as 19,
\* -19.99 as -19); with any other decimal places it is stored unchanged.
C3_TruncatesTowardZero ==
    (/\ ret.op = "init"
     /\ FiniteInput(ret.arg.amount)
     /\ ToCurrency(ret.arg.currency).ok)
        => /\ ret.kind = "Money"
           /\ IsFin(ret.val.amount)
           /\ IF AmountPlaces(ret.val) = 0
              THEN IsTruncation(ret.val.amount.v, InputValue(ret.arg.amount).val.v)
              ELSE ret.val.amount = InputValue(ret.arg.amount).val

C3_Witness ==
    /\ ret.op = "init"
    /\ ret.kind = "Money"
    /\ AmountPlaces(ret.val) = 0
    /\ ret.arg.amount = ADec(Milli(-19990))
    /\ ret.val.amount = Fin(-19 * Unit)

\* C4: the display_decimal_places of a constructed Money is the entry of its
\* currency in the display override mapping when there is one and the
\* default otherwise, whatever the amount override mapping holds.
C4_DisplayPlacesIndependent ==
    (ret.op = "init" /\ ret.kind = "Money")
        => DisplayPlaces(ret.val) =
               (LET disp == settings.DISPLAY_DECIMAL_PLACES_PER_CURRENCY
                IN  IF disp.dict /\ ret.val.currency \in DOMAIN disp.items
                    THEN disp.items[ret.val.currency]
                    ELSE settings.DECIMAL_PLACES)

\* an amount argument that is no finite number: a malformed text, a NaN or
\* an infinity
NonFiniteInput(amount) ==
    IF amount.t = "float" THEN amount.f.k # "fin"
    ELSE ~FiniteInput(amount)

\* C5: constructing a Money from an amount that is no finite number raises
\* an error for every currency, so no Money holds a NaN or an infinity.
C5_NonFiniteRejected ==
    /\ (ret.op = "init" /\ NonFiniteInput(ret.arg.amount)) => ret.kind = "raise"
    /\ \A m \in Live : IsFin(m.amount)

\* the text that get_current_locale is to give for the active language
ExpectedLocale(active, code, table) ==
    LET canon == to_locale(IF active.set /\ active.v # <<>> THEN active.v ELSE code)
    IN  IF \E t \in table : t = Upper(canon) THEN canon
        ELSE IF \E t \in table : t = Upper(canon) \o <<"_">> \o Upper(canon)
        THEN Upper(canon) \o <<"_">> \o Upper(canon)
        ELSE <<>>

\* C8: get_current_locale gives the canonical locale tag of the requested
\* language when its upper-case form is in the table of definitions,
\* otherwise the doubled upper-case tag ("fr" gives "FR_FR") when that is in
\* the table, otherwise the empty text; with {EN_US, FR_FR} known, "fr"
\* gives "FR_FR" and "de" gives the empty text.
C8_LocaleResolution ==
    ret.op = "locale"
        => /\ ret.val = ExpectedLocale(ret.arg, settings.LANGUAGE_CODE,
                                       formatting_definitions)
           /\ (formatting_definitions = {EN_US, FR_FR} /\ ret.arg = Set(<<"f", "r">>))
                  => ret.val = FR_FR
           /\ (formatting_definitions = {EN_US, FR_FR} /\ ret.arg = Set(<<"d", "e">>))
                  => ret.val = <<>>

C8_Witness ==
    /\ ret.op = "locale"
    /\ ret.arg = Set(<<"s", "r", "-", "l", "a", "t", "n">>)
    /\ ret.val = <<"s", "r", "_", "L", "a", "t", "n">>

\* the significant digits of a decimal literal
LiteralDigits(s) == SigDigits(Abs(DecimalOfStr(s).val.v))

=============================================================================
